---- MODULE Spec2Model ----
(***************************************************************************)
(* Matrix-free operators of pygimli/core/matrix.py: the scaling wrappers   *)
(* MultLeftMatrix, MultRightMatrix and MultLeftRightMatrix over a base     *)
(* operator, the combinators Add2Matrix and Mult2Matrix, DiagonalMatrix,   *)
(* the inverse-square-root operator Cm05Matrix, and the block container    *)
(* BlockMatrix with its replaced addMatrix and its subclass NDMatrix.      *)
(*                                                                         *)
(* Python objects are references, so the operators live in a heap: a       *)
(* sequence of objects whose fields A and B hold heap indices.  A call     *)
(* either returns a vector or raises; both outcomes are values of the      *)
(* model (Ok / Fail).  Vectors are numpy arrays of integers: the           *)
(* element-wise operators broadcast an operand of length 1 and raise       *)
(* ValueError on any other length mismatch.  The dense computations of     *)
(* Cm05Matrix are over floats, modelled as exact fractions with inf and    *)
(* nan.                                                                    *)
(***************************************************************************)
EXTENDS Integers, Sequences, FiniteSets, TLC

VARIABLES heap, last

vars == <<heap, last>>

\* Bounds of the model: the length and the entries of the vectors, the
\* operators constructed, the sub-operators and the entries of a block
\* container, and the largest block count asked of NDMatrix.
MaxLen == 2
MaxVal == 2
MaxObjs == 2
MaxEntries == 2
MaxNum == 2

\* Every vector of at most MaxLen entries, each in 1..MaxVal: the vectors the
\* properties range over.
Vals == 1..MaxVal
AllVecs == UNION {[1..n -> Vals] : n \in 1..MaxLen}

\* The vectors the calls of the state machine are made with (weights as
\* well as inputs): one of length 1 and two different ones of length 2.
Vecs == {<<2>>, <<1, 2>>, <<2, 1>>}

NoRef == 0
NoVec == <<>>

---------------------------------------------------------------------------
\* Outcome of a call: a returned vector, or the exception raised.

Ok(v) == [ok |-> TRUE, val |-> v, err |-> "none"]

Fail(e) == [ok |-> FALSE, val |-> NoVec, err |-> e]

\* The exceptions that report a shape or dimension mismatch.
ShapeErrors == {"Exception", "AssertionError", "ValueError", "ShapeError"}

---------------------------------------------------------------------------
\* Vector arithmetic (the * and + of the vector type).

Times(a, b) ==
    IF Len(a) = Len(b) THEN Ok([i \in 1..Len(a) |-> a[i] * b[i]])
    ELSE IF Len(a) = 1 THEN Ok([i \in 1..Len(b) |-> a[1] * b[i]])
    ELSE IF Len(b) = 1 THEN Ok([i \in 1..Len(a) |-> a[i] * b[1]])
    ELSE Fail("ValueError")

Plus(a, b) ==
    IF Len(a) = Len(b) THEN Ok([i \in 1..Len(a) |-> a[i] + b[i]])
    ELSE IF Len(a) = 1 THEN Ok([i \in 1..Len(b) |-> a[1] + b[i]])
    ELSE IF Len(b) = 1 THEN Ok([i \in 1..Len(a) |-> a[i] + b[1]])
    ELSE Fail("ValueError")

\* ra * w and ra + rb where the left operands are outcomes of calls: an
\* exception raised while evaluating an operand propagates.
TimesR(ra, w) == IF ra.ok THEN Times(ra.val, w) ELSE ra

PlusR(ra, rb) ==
    IF ~ra.ok THEN ra ELSE IF ~rb.ok THEN rb ELSE Plus(ra.val, rb.val)

RECURSIVE SumTo(_, _, _)
SumTo(a, b, n) == IF n = 0 THEN 0 ELSE a[n] * b[n] + SumTo(a, b, n - 1)

Dot(a, b) == SumTo(a, b, Len(a))

---------------------------------------------------------------------------
\* Floating-point numbers of the dense (numpy) computations, without
\* rounding: the exact fraction n/d in lowest terms with d > 0, and the
\* non-finite values as d = 0 (inf: n = 1, -inf: n = -1, nan: n = 0).

RECURSIVE Gcd(_, _)
Gcd(a, b) == IF b = 0 THEN a ELSE Gcd(b, a % b)

Abs(k) == IF k < 0 THEN -k ELSE k

Sign(k) == IF k > 0 THEN 1 ELSE IF k < 0 THEN -1 ELSE 0

Float(n, d) ==
    IF d = 0 THEN [n |-> Sign(n), d |-> 0]
    ELSE LET g == Gcd(Abs(n), Abs(d))
         IN  [n |-> Sign(d) * (n \div g), d |-> Abs(d) \div g]

FromInt(k) == Float(k, 1)

AsFloats(x) == [i \in 1..Len(x) |-> FromInt(x[i])]

NaN == Float(0, 0)

IsFinite(a) == a.d # 0

\* a * b: inf * 0 is nan.
FMul(a, b) == Float(a.n * b.n, a.d * b.d)

\* a + b: inf + (-inf) is nan.
FAdd(a, b) ==
    IF a.d # 0 /\ b.d # 0 THEN Float(a.n * b.d + b.n * a.d, a.d * b.d)
    ELSE IF a.d = 0 /\ b.d = 0 THEN (IF a.n = b.n THEN a ELSE NaN)
    ELSE IF a.d = 0 THEN a
    ELSE b

\* 1. / a: division by zero gives inf (a warning, no exception).
FRecip(a) == Float(a.d, a.n)

\* The integer root of a perfect square.
ISqrt(k) == CHOOSE s \in 0..k : s * s = k

\* np.sqrt(a): nan for a negative argument (a warning, no exception).
FSqrt(a) ==
    IF a.n < 0 THEN NaN
    ELSE IF a.d = 0 THEN a
    ELSE Float(ISqrt(a.n), ISqrt(a.d))

FLeq(a, b) == a.n * b.d <= b.n * a.d

RECURSIVE FSumTo(_, _, _)
FSumTo(a, b, n) ==
    IF n = 0 THEN FromInt(0)
    ELSE FAdd(FSumTo(a, b, n - 1), FMul(a[n], b[n]))

\* np.dot of two vectors of one length.
FDot(a, b) == FSumTo(a, b, Len(a))

---------------------------------------------------------------------------
\* Objects.  kind is the class; the other fields are the attributes the
\* class stores (A, B: heap indices; l, r, d: vectors; M: the rows of a
\* dense leaf matrix).

Obj(kind, A, B, l, r, d, M) ==
    [kind |-> kind, A |-> A, B |-> B, l |-> l, r |-> r, d |-> d, M |-> M]

Matrix(M) == Obj("Matrix", NoRef, NoRef, NoVec, NoVec, NoVec, M)

N22 == << <<1, 2>>, <<0, 1>> >>
R12 == << <<1, 2>> >>

\* The leaf matrices the collaborators hand to this layer: a square one
\* that is not symmetric and one that is not square.
Leaves == << Matrix(N22), Matrix(R12) >>

Ids(h) == 1..Len(h)

\* The dense arrays Cm05Matrix is built from: symmetric positive definite
\* ones (1x1, diagonal, and one whose eigenvectors are not the axes), one
\* with a zero and one with a negative eigenvalue, one that is not
\* symmetric and one that is not square.
A11 == << <<4>> >>
D14 == << <<1, 0>>, <<0, 4>> >>
S345 == << <<73, -36>>, <<-36, 52>> >>
Z10 == << <<1, 0>>, <<0, 0>> >>
Q14 == << <<1, 0>>, <<0, -4>> >>

Arrays == {A11, D14, S345, Z10, Q14, N22, R12}

\* A.shape
Shape(A) == <<Len(A), Len(A[1])>>

---------------------------------------------------------------------------
\* scipy.linalg.eigh(A): the eigenvalues in ascending order and a matrix
\* whose columns are orthonormal eigenvectors, of the symmetric matrix read
\* from the lower triangle of A; ValueError for an array that is not square.
\* The decomposition is the one among the candidate eigenvalues and bases
\* below, which cover the arrays above.

EigVals == {FromInt(k) : k \in {-4, 0, 1, 4, 25, 100}}

Bases(n) ==
    IF n = 1 THEN {<< <<FromInt(1)>> >>}
    ELSE {<< <<FromInt(1), FromInt(0)>>, <<FromInt(0), FromInt(1)>> >>,
          << <<FromInt(0), FromInt(1)>>, <<FromInt(1), FromInt(0)>> >>,
          << <<Float(3, 5), Float(-4, 5)>>, <<Float(4, 5), Float(3, 5)>> >>}

Lower(A) ==
    [i \in 1..Len(A) |->
        [j \in 1..Len(A) |-> FromInt(IF j <= i THEN A[i][j] ELSE A[j][i])]]

Column(EV, i) == [k \in 1..Len(EV) |-> EV[k][i]]

IsEigh(A, ew, EV) ==
    /\ \A i \in 1..(Len(A) - 1) : FLeq(ew[i], ew[i + 1])
    /\ \A i \in 1..Len(A), j \in 1..Len(A) :
          FDot(Lower(A)[j], Column(EV, i)) = FMul(ew[i], EV[j][i])

eigh(A) ==
    IF Len(A) # Len(A[1])
    THEN [ok |-> FALSE, err |-> "ValueError", ew |-> <<>>, EV |-> <<>>]
    ELSE LET c == CHOOSE c \in [1..Len(A) -> EigVals] \X Bases(Len(A)) :
                      IsEigh(A, c[1], c[2])
         IN  [ok |-> TRUE, err |-> "none", ew |-> c[1], EV |-> c[2]]

\* Classes derived from MultMatrix.
MultKinds == {"MultLeftMatrix", "MultRightMatrix", "MultLeftRightMatrix"}

HasLeft(o) == o.kind \in {"MultLeftMatrix", "MultLeftRightMatrix"}

HasRight(o) == o.kind \in {"MultRightMatrix", "MultLeftRightMatrix"}

\* BlockMatrix (pgcore.RBlockMatrix) and its subclass NDMatrix.
BlockKinds == {"BlockMatrix", "NDMatrix"}

\* A block container.  hasMats and mats are the attribute __mats__ of the
\* Python object (absent until the first addMatrix); matrices, entries,
\* nrows and ncols are the state of the underlying container: the
\* sub-operators registered, the placements [mat, row, col] (mat: index into
\* matrices, from 0), and the extents.  Ji is the list of NDMatrix.
Block(kind) ==
    [kind |-> kind, hasMats |-> FALSE, mats |-> <<>>, matrices |-> <<>>,
     entries |-> <<>>, nrows |-> 0, ncols |-> 0, Ji |-> <<>>]

Entry(n, row, col) == [mat |-> n, row |-> row, col |-> col]

---------------------------------------------------------------------------
\* rows() and cols().

RECURSIVE rows(_, _), cols(_, _)

Matrix_rows(h, o) == Len(h[o].M)

Matrix_cols(h, o) == Len(h[o].M[1])

MultMatrix_rows(h, o) == rows(h, h[o].A)

MultMatrix_cols(h, o) == cols(h, h[o].A)

Add2Matrix_rows(h, o) == rows(h, h[o].A)

Add2Matrix_cols(h, o) == cols(h, h[o].A)

Mult2Matrix_rows(h, o) == rows(h, h[o].A)

Mult2Matrix_cols(h, o) == cols(h, h[o].B)

DiagonalMatrix_rows(h, o) == Len(h[o].d)

DiagonalMatrix_cols(h, o) == Len(h[o].d)

\* The block container keeps the extents its last recalculation found.
RBlockMatrix_rows(h, o) == h[o].nrows

RBlockMatrix_cols(h, o) == h[o].ncols

Cm05Matrix_rows(h, o) == h[o].size

Cm05Matrix_cols(h, o) == h[o].size

rows(h, o) ==
    CASE h[o].kind = "Matrix" -> Matrix_rows(h, o)
      [] h[o].kind \in MultKinds -> MultMatrix_rows(h, o)
      [] h[o].kind = "Add2Matrix" -> Add2Matrix_rows(h, o)
      [] h[o].kind = "Mult2Matrix" -> Mult2Matrix_rows(h, o)
      [] h[o].kind = "DiagonalMatrix" -> DiagonalMatrix_rows(h, o)
      [] h[o].kind = "Cm05Matrix" -> Cm05Matrix_rows(h, o)
      [] h[o].kind \in BlockKinds -> RBlockMatrix_rows(h, o)

cols(h, o) ==
    CASE h[o].kind = "Matrix" -> Matrix_cols(h, o)
      [] h[o].kind \in MultKinds -> MultMatrix_cols(h, o)
      [] h[o].kind = "Add2Matrix" -> Add2Matrix_cols(h, o)
      [] h[o].kind = "Mult2Matrix" -> Mult2Matrix_cols(h, o)
      [] h[o].kind = "DiagonalMatrix" -> DiagonalMatrix_cols(h, o)
      [] h[o].kind = "Cm05Matrix" -> Cm05Matrix_cols(h, o)
      [] h[o].kind \in BlockKinds -> RBlockMatrix_cols(h, o)

---------------------------------------------------------------------------
\* mult(x) and transMult(x).

RECURSIVE mult(_, _, _), transMult(_, _, _)

\* A leaf honours the operator contract: M*x, or a shape error.
Matrix_mult(h, o, x) ==
    IF Len(x) # Matrix_cols(h, o) THEN Fail("ShapeError")
    ELSE Ok([i \in 1..Matrix_rows(h, o) |-> Dot(h[o].M[i], x)])

Matrix_transMult(h, o, x) ==
    IF Len(x) # Matrix_rows(h, o) THEN Fail("ShapeError")
    ELSE Ok([j \in 1..Matrix_cols(h, o) |->
                SumTo([i \in 1..Len(x) |-> h[o].M[i][j]], x, Len(x))])

MultLeftMatrix_mult(h, o, x) == TimesR(mult(h, h[o].A, x), h[o].l)

MultLeftMatrix_transMult(h, o, x) ==
    LET xl == Times(x, h[o].l)
    IN  IF xl.ok THEN transMult(h, h[o].A, xl.val) ELSE xl

\* Scales every input by r, whatever its length.
MultRightMatrix_mult_noFallback(h, o, x) ==
    LET xr == Times(x, h[o].r)
    IN  IF xr.ok THEN mult(h, h[o].A, xr.val) ELSE xr

MultRightMatrix_mult(h, o, x) ==
    IF Len(x) # Len(h[o].r)
    THEN Fail("AttributeError")   \* self.perm: no such attribute
    ELSE LET xr == Times(x, h[o].r)
         IN  IF xr.ok THEN mult(h, h[o].A, xr.val) ELSE xr

MultRightMatrix_transMult(h, o, x) ==
    TimesR(transMult(h, h[o].A, x), h[o].r)

MultLeftRightMatrix_mult(h, o, x) ==
    LET xr == Times(x, h[o].r)
    IN  IF xr.ok THEN TimesR(mult(h, h[o].A, xr.val), h[o].l) ELSE xr

MultLeftRightMatrix_transMult(h, o, x) ==
    LET xl == Times(x, h[o].l)
    IN  IF xl.ok THEN TimesR(transMult(h, h[o].A, xl.val), h[o].r) ELSE xl

\* Adds A's result twice.
Add2Matrix_mult_twiceA(h, o, x) ==
    PlusR(mult(h, h[o].A, x), mult(h, h[o].A, x))

Add2Matrix_mult(h, o, x) == PlusR(mult(h, h[o].A, x), mult(h, h[o].B, x))

Add2Matrix_transMult(h, o, x) ==
    PlusR(transMult(h, h[o].A, x), transMult(h, h[o].B, x))

Mult2Matrix_mult(h, o, x) ==
    LET bx == mult(h, h[o].B, x)
    IN  IF bx.ok THEN mult(h, h[o].A, bx.val) ELSE bx

\* Applies the factors in the order of mult.
Mult2Matrix_transMult_sameOrder(h, o, x) ==
    LET bx == transMult(h, h[o].B, x)
    IN  IF bx.ok THEN transMult(h, h[o].A, bx.val) ELSE bx

Mult2Matrix_transMult(h, o, x) ==
    LET ax == transMult(h, h[o].A, x)
    IN  IF ax.ok THEN transMult(h, h[o].B, ax.val) ELSE ax

DiagonalMatrix_mult(h, o, x) == Times(x, h[o].d)

\* Returns the input unscaled.
DiagonalMatrix_transMult_unscaled(h, o, x) == Ok(x)

DiagonalMatrix_transMult(h, o, x) == Times(x, h[o].d)

\* Projects with EV where the code projects with its transpose.
Cm05Matrix_mult_noTranspose(h, o, x) ==
    IF Len(x) # h[o].size THEN Fail("ValueError")
    ELSE LET part1 == [i \in 1..h[o].size |->
                          FMul(FDot(x, h[o].EV[i]), h[o].mul[i])]
         IN  Ok([j \in 1..h[o].size |-> FDot(h[o].EV[j], part1)])

\* x is a vector of floats.  np.dot raises ValueError when the length of x
\* is not the size of EV.
Cm05Matrix_mult(h, o, x) ==
    IF Len(x) # h[o].size THEN Fail("ValueError")
    ELSE LET part1 == [i \in 1..h[o].size |->
                          FMul(FDot(x, Column(h[o].EV, i)), h[o].mul[i])]
         IN  Ok([j \in 1..h[o].size |-> FDot(h[o].EV[j], part1)])

\* Returns the input as it is.
Cm05Matrix_transMult_identity(h, o, x) ==
    IF Len(x) # h[o].size THEN Fail("ValueError") ELSE Ok(x)

Cm05Matrix_transMult(h, o, x) == Cm05Matrix_mult(h, o, x)

Zeros(n) == [i \in 1..n |-> 0]

\* x[c : c + n]
Slice(x, c, n) == [i \in 1..n |-> x[c + i]]

\* y with v added at positions r+1 .. r+Len(v).
AddInto(y, r, v) ==
    [i \in 1..Len(y) |->
        IF r < i /\ i <= r + Len(v) THEN y[i] + v[i - r] ELSE y[i]]

\* The output after the first k entries: each entry applies its
\* sub-operator to its slice of x and adds the result into its slice of the
\* output.
RECURSIVE RBlockMatrix_multTo(_, _, _, _)
RBlockMatrix_multTo(h, o, x, k) ==
    IF k = 0 THEN Ok(Zeros(h[o].nrows))
    ELSE LET acc == RBlockMatrix_multTo(h, o, x, k - 1)
             e == h[o].entries[k]
             sub == h[o].matrices[e.mat + 1]
             part == mult(h, sub, Slice(x, e.col, cols(h, sub)))
         IN  IF ~acc.ok THEN acc
             ELSE IF ~part.ok THEN part
             ELSE Ok(AddInto(acc.val, e.row, part.val))

RBlockMatrix_mult(h, o, x) ==
    IF Len(x) # h[o].ncols THEN Fail("ShapeError")
    ELSE RBlockMatrix_multTo(h, o, x, Len(h[o].entries))

RECURSIVE RBlockMatrix_transMultTo(_, _, _, _)
RBlockMatrix_transMultTo(h, o, y, k) ==
    IF k = 0 THEN Ok(Zeros(h[o].ncols))
    ELSE LET acc == RBlockMatrix_transMultTo(h, o, y, k - 1)
             e == h[o].entries[k]
             sub == h[o].matrices[e.mat + 1]
             part == transMult(h, sub, Slice(y, e.row, rows(h, sub)))
         IN  IF ~acc.ok THEN acc
             ELSE IF ~part.ok THEN part
             ELSE Ok(AddInto(acc.val, e.col, part.val))

RBlockMatrix_transMult(h, o, y) ==
    IF Len(y) # h[o].nrows THEN Fail("ShapeError")
    ELSE RBlockMatrix_transMultTo(h, o, y, Len(h[o].entries))

mult(h, o, x) ==
    CASE h[o].kind = "Matrix" -> Matrix_mult(h, o, x)
      [] h[o].kind = "MultLeftMatrix" -> MultLeftMatrix_mult(h, o, x)
      [] h[o].kind = "MultRightMatrix" -> MultRightMatrix_mult(h, o, x)
      [] h[o].kind = "MultLeftRightMatrix" -> MultLeftRightMatrix_mult(h, o, x)
      [] h[o].kind = "Add2Matrix" -> Add2Matrix_mult(h, o, x)
      [] h[o].kind = "Mult2Matrix" -> Mult2Matrix_mult(h, o, x)
      [] h[o].kind = "DiagonalMatrix" -> DiagonalMatrix_mult(h, o, x)
      [] h[o].kind = "Cm05Matrix" -> Cm05Matrix_mult(h, o, AsFloats(x))
      [] h[o].kind \in BlockKinds -> RBlockMatrix_mult(h, o, x)

transMult(h, o, x) ==
    CASE h[o].kind = "Matrix" -> Matrix_transMult(h, o, x)
      [] h[o].kind = "MultLeftMatrix" -> MultLeftMatrix_transMult(h, o, x)
      [] h[o].kind = "MultRightMatrix" -> MultRightMatrix_transMult(h, o, x)
      [] h[o].kind = "MultLeftRightMatrix" ->
            MultLeftRightMatrix_transMult(h, o, x)
      [] h[o].kind = "Add2Matrix" -> Add2Matrix_transMult(h, o, x)
      [] h[o].kind = "Mult2Matrix" -> Mult2Matrix_transMult(h, o, x)
      [] h[o].kind = "DiagonalMatrix" -> DiagonalMatrix_transMult(h, o, x)
      [] h[o].kind = "Cm05Matrix" -> Cm05Matrix_transMult(h, o, AsFloats(x))
      [] h[o].kind \in BlockKinds -> RBlockMatrix_transMult(h, o, x)

---------------------------------------------------------------------------
\* Constructors and setters.  Each yields the outcome and the heap after it:
\* a constructor that raises yields no object.

Raised(h, e) == [res |-> Fail(e), heap |-> h]

Created(h, obj) == [res |-> Ok(NoVec), heap |-> Append(h, obj)]

Stored(h) == [res |-> Ok(NoVec), heap |-> h]

Ones(n) == [i \in 1..n |-> 1]

MultLeftMatrix_init(h, A, left) ==
    IF rows(h, A) # Len(left) THEN Raised(h, "Exception")
    ELSE Created(h, Obj("MultLeftMatrix", A, NoRef, left, NoVec, NoVec, NoVec))

\* r = NoVec stands for r=None.
MultRightMatrix_init(h, A, r) ==
    IF r = NoVec
    THEN Created(h, Obj("MultRightMatrix", A, NoRef, NoVec,
                        Ones(cols(h, A)), NoVec, NoVec))
    ELSE Created(h, Obj("MultRightMatrix", A, NoRef, NoVec, r, NoVec, NoVec))

MultLeftRightMatrix_init(h, A, left, right) ==
    IF cols(h, A) # Len(right) THEN Raised(h, "Exception")
    ELSE IF rows(h, A) # Len(left) THEN Raised(h, "Exception")
    ELSE Created(h, Obj("MultLeftRightMatrix", A, NoRef, left, right,
                        NoVec, NoVec))

Add2Matrix_init(h, A, B) ==
    IF rows(h, A) # rows(h, B) THEN Raised(h, "AssertionError")
    ELSE IF cols(h, A) # cols(h, B) THEN Raised(h, "AssertionError")
    ELSE Created(h, Obj("Add2Matrix", A, B, NoVec, NoVec, NoVec, NoVec))

Mult2Matrix_init(h, A, B) ==
    IF cols(h, A) # rows(h, B) THEN Raised(h, "AssertionError")
    ELSE Created(h, Obj("Mult2Matrix", A, B, NoVec, NoVec, NoVec, NoVec))

DiagonalMatrix_init(h, d) ==
    Created(h, Obj("DiagonalMatrix", NoRef, NoRef, NoVec, NoVec, d, NoVec))

\* Decomposes first and tests the shape afterwards.
Cm05Matrix_init_checkAfterEigh(h, A) ==
    LET e == eigh(A)
    IN  IF ~e.ok THEN Raised(h, e.err)
        ELSE IF Shape(A)[1] # Shape(A)[2] THEN Raised(h, "Exception")
        ELSE Created(h, [kind |-> "Cm05Matrix", size |-> Shape(A)[1],
                         ew |-> e.ew, EV |-> e.EV,
                         mul |-> [i \in 1..Len(e.ew) |->
                                     FSqrt(FRecip(e.ew[i]))],
                         A |-> A])

\* Refuses an eigenvalue that is not positive.
Cm05Matrix_init_checksDefinite(h, A) ==
    IF Shape(A)[1] # Shape(A)[2] THEN Raised(h, "Exception")
    ELSE LET e == eigh(A)
         IN  IF ~e.ok THEN Raised(h, e.err)
             ELSE IF \E i \in 1..Len(e.ew) : e.ew[i].n <= 0
             THEN Raised(h, "Exception")
             ELSE Created(h, [kind |-> "Cm05Matrix", size |-> Shape(A)[1],
                              ew |-> e.ew, EV |-> e.EV,
                              mul |-> [i \in 1..Len(e.ew) |->
                                          FSqrt(FRecip(e.ew[i]))],
                              A |-> A])

\* A is a dense array (the rows of a numpy matrix), not an operator.
Cm05Matrix_init(h, A) ==
    IF Shape(A)[1] # Shape(A)[2] THEN Raised(h, "Exception")
    ELSE LET e == eigh(A)
         IN  IF ~e.ok THEN Raised(h, e.err)
             ELSE Created(h, [kind |-> "Cm05Matrix", size |-> Shape(A)[1],
                              ew |-> e.ew, EV |-> e.EV,
                              mul |-> [i \in 1..Len(e.ew) |->
                                          FSqrt(FRecip(e.ew[i]))],
                              A |-> A])

\* BlockMatrix()
RBlockMatrix_init(h) == Created(h, Block("BlockMatrix"))

Max(S) == IF S = {} THEN 0 ELSE CHOOSE m \in S : \A k \in S : k <= m

\* recalcMatrixSize(): the extents are the maxima over the entries.
RBlockMatrix_recalcMatrixSize(h, o) ==
    LET es == h[o].entries
        sub(k) == h[o].matrices[es[k].mat + 1]
    IN  [h EXCEPT
           ![o].nrows = Max({es[k].row + rows(h, sub(k)) : k \in DOMAIN es}),
           ![o].ncols = Max({es[k].col + cols(h, sub(k)) : k \in DOMAIN es})]

\* The container's own addMatrix(M): registers M and returns its index.
RBlockMatrix_addMatrix(h, o, M) ==
    [res |-> Ok(<<Len(h[o].matrices)>>),
     heap |-> [h EXCEPT ![o].matrices = Append(@, M)]]

\* addMatrixEntry(n, row, col): places the sub-operator of index n and
\* recomputes the extents.
RBlockMatrix_addMatrixEntry(h, o, n, row, col) ==
    Stored(RBlockMatrix_recalcMatrixSize(
               [h EXCEPT ![o].entries = Append(@, Entry(n, row, col))], o))

\* Starts the list anew at every call.
BlockMatrix_addMatrix_newList(h, o, M, args) ==
    IF Len(args) # 0 THEN Raised(h, "TypeError")
    ELSE RBlockMatrix_addMatrix(
             [h EXCEPT ![o].hasMats = TRUE, ![o].mats = <<M>>], o, M)

\* Hands the first element of __mats__ to the container, not M.
BlockMatrix_addMatrix_registersFirst(h, o, M, args) ==
    IF Len(args) # 0 THEN Raised(h, "TypeError")
    ELSE LET h1 == IF h[o].hasMats THEN h
                   ELSE [h EXCEPT ![o].hasMats = TRUE, ![o].mats = <<>>]
             h2 == [h1 EXCEPT ![o].mats = Append(@, M)]
         IN  RBlockMatrix_addMatrix(h2, o, h2[o].mats[1])

\* obj.addMatrix(M, *args): the function bound to the name addMatrix takes
\* self and M only, so a call with further positional arguments raises
\* TypeError before its body runs.
BlockMatrix_addMatrix(h, o, M, args) ==
    IF Len(args) # 0 THEN Raised(h, "TypeError")
    ELSE LET h1 == IF h[o].hasMats THEN h
                   ELSE [h EXCEPT ![o].hasMats = TRUE, ![o].mats = <<>>]
             h2 == [h1 EXCEPT ![o].mats = Append(@, M)]
         IN  RBlockMatrix_addMatrix(h2, o, M)

\* NDMatrix(num, nrows, ncols): the first statement of the loop body reads
\* the name pg, which the module does not define; without an iteration the
\* container stays empty.
NDMatrix_init(h, num, nrows, ncols) ==
    IF num > 0 THEN Raised(h, "NameError")
    ELSE LET c == Created(h, Block("NDMatrix"))
         IN  [res |-> c.res,
              heap |-> RBlockMatrix_recalcMatrixSize(c.heap, Len(c.heap))]

\* obj.A = A
MultMatrix_set_A(h, o, A) == Stored([h EXCEPT ![o].A = A])

\* obj.l = v: the property l of both classes has a getter only, the setter
\* written under @l.setter is bound to the name r.
MultLeftMatrix_set_l(h, o, v) == Raised(h, "AttributeError")

MultLeftRightMatrix_set_l(h, o, v) == Raised(h, "AttributeError")

\* obj.r = v
MultLeftMatrix_set_r(h, o, v) == Stored([h EXCEPT ![o].l = v])

MultRightMatrix_set_r(h, o, v) == Stored([h EXCEPT ![o].r = v])

MultLeftRightMatrix_set_r(h, o, v) == Stored([h EXCEPT ![o].r = v])

set_l(h, o, v) ==
    CASE h[o].kind = "MultLeftMatrix" -> MultLeftMatrix_set_l(h, o, v)
      [] h[o].kind = "MultLeftRightMatrix" ->
            MultLeftRightMatrix_set_l(h, o, v)

set_r(h, o, v) ==
    CASE h[o].kind = "MultLeftMatrix" -> MultLeftMatrix_set_r(h, o, v)
      [] h[o].kind = "MultRightMatrix" -> MultRightMatrix_set_r(h, o, v)
      [] h[o].kind = "MultLeftRightMatrix" ->
            MultLeftRightMatrix_set_r(h, o, v)

---------------------------------------------------------------------------
\* The state machine.  last is the latest call: its name, the object it
\* created or acted on (NoRef when a constructor raised), its vector
\* argument (for a setter or mult/transMult) and its outcome.

Call(op, self, x, res) == [op |-> op, self |-> self, x |-> x, res |-> res]

Init ==
    /\ heap = Leaves
    /\ last = Call("init", NoRef, NoVec, Ok(NoVec))

Room == Len(heap) < Len(Leaves) + MaxObjs

\* The effect of a constructor call with outcome c.
Construct(op, c) ==
    /\ heap' = c.heap
    /\ last' = Call(op, IF c.res.ok THEN Len(c.heap) ELSE NoRef, NoVec, c.res)

NewMultLeftMatrix ==
    /\ Room
    /\ \E A \in Ids(heap), left \in Vecs :
          Construct("MultLeftMatrix", MultLeftMatrix_init(heap, A, left))

NewMultRightMatrix ==
    /\ Room
    /\ \E A \in Ids(heap), r \in Vecs \cup {NoVec} :
          Construct("MultRightMatrix", MultRightMatrix_init(heap, A, r))

NewMultLeftRightMatrix ==
    /\ Room
    /\ \E A \in Ids(heap), left \in Vecs, right \in Vecs :
          Construct("MultLeftRightMatrix",
                    MultLeftRightMatrix_init(heap, A, left, right))

NewAdd2Matrix ==
    /\ Room
    /\ \E A \in Ids(heap), B \in Ids(heap) :
          Construct("Add2Matrix", Add2Matrix_init(heap, A, B))

NewMult2Matrix ==
    /\ Room
    /\ \E A \in Ids(heap), B \in Ids(heap) :
          Construct("Mult2Matrix", Mult2Matrix_init(heap, A, B))

NewDiagonalMatrix ==
    /\ Room
    /\ \E d \in Vecs :
          Construct("DiagonalMatrix", DiagonalMatrix_init(heap, d))

\* obj.A = A on a scaling wrapper; the new base is an older object, so the
\* operator tree stays acyclic.
SetA ==
    \E o \in Ids(heap), A \in Ids(heap) :
        /\ heap[o].kind \in MultKinds
        /\ A < o
        /\ LET c == MultMatrix_set_A(heap, o, A)
           IN  /\ heap' = c.heap
               /\ last' = Call("set_A", o, NoVec, c.res)

SetL ==
    \E o \in Ids(heap), v \in Vecs :
        /\ HasLeft(heap[o])
        /\ LET c == set_l(heap, o, v)
           IN  /\ heap' = c.heap
               /\ last' = Call("set_l", o, v, c.res)

SetR ==
    \E o \in Ids(heap), v \in Vecs :
        /\ heap[o].kind \in MultKinds
        /\ LET c == set_r(heap, o, v)
           IN  /\ heap' = c.heap
               /\ last' = Call("set_r", o, v, c.res)

CallMult ==
    \E o \in Ids(heap), x \in Vecs :
        /\ last' = Call("mult", o, x, mult(heap, o, x))
        /\ UNCHANGED heap

CallTransMult ==
    \E o \in Ids(heap), x \in Vecs :
        /\ last' = Call("transMult", o, x, transMult(heap, o, x))
        /\ UNCHANGED heap

Next ==
    \/ NewMultLeftMatrix
    \/ NewMultRightMatrix
    \/ NewMultLeftRightMatrix
    \/ NewAdd2Matrix
    \/ NewMult2Matrix
    \/ NewDiagonalMatrix
    \/ SetA
    \/ SetL
    \/ SetR
    \/ CallMult
    \/ CallTransMult

Spec == Init /\ [][Next]_vars

\* The combinators and the diagonal operator alone, over the leaves.
NextCombinators ==
    \/ NewAdd2Matrix
    \/ NewMult2Matrix
    \/ NewDiagonalMatrix
    \/ CallMult
    \/ CallTransMult

SpecCombinators == Init /\ [][NextCombinators]_vars

\* Cm05Matrix(A); the call is recorded with the shape of A.
NewCm05Matrix ==
    /\ Room
    /\ \E A \in Arrays :
          LET c == Cm05Matrix_init(heap, A)
          IN  /\ heap' = c.heap
              /\ last' = Call("Cm05Matrix",
                              IF c.res.ok THEN Len(c.heap) ELSE NoRef,
                              Shape(A), c.res)

\* The inverse-square-root operator alone, besides the leaves.
NextCm05 ==
    \/ NewCm05Matrix
    \/ CallMult
    \/ CallTransMult

SpecCm05 == Init /\ [][NextCm05]_vars

\* The offsets (row, col) sub-operators are placed at.
Placements == {<<0, 0>>, <<1, 0>>, <<1, 1>>}

\* BlockMatrix()
NewBlockMatrix ==
    /\ Room
    /\ Construct("BlockMatrix", RBlockMatrix_init(heap))

\* NDMatrix(num, nrows, ncols); the call is recorded with its arguments.
NewNDMatrix ==
    /\ Room
    /\ \E num \in 0..MaxNum, nrows \in 1..MaxLen, ncols \in 1..MaxLen :
          LET c == NDMatrix_init(heap, num, nrows, ncols)
          IN  /\ heap' = c.heap
              /\ last' = Call("NDMatrix",
                              IF c.res.ok THEN Len(c.heap) ELSE NoRef,
                              <<num, nrows, ncols>>, c.res)

\* obj.addMatrix(M) and obj.addMatrix(M, row, col); the call is recorded
\* with its arguments.
AddMatrix ==
    \E o \in Ids(heap), M \in Ids(heap), args \in {<<>>} \cup Placements :
        /\ heap[o].kind \in BlockKinds
        /\ heap[M].kind \notin BlockKinds
        /\ Len(heap[o].matrices) < MaxEntries
        /\ LET c == BlockMatrix_addMatrix(heap, o, M, args)
           IN  /\ heap' = c.heap
               /\ last' = Call("addMatrix", o, <<M>> \o args, c.res)

\* obj.addMatrixEntry(n, row, col) for an index n that addMatrix returned.
AddMatrixEntry ==
    \E o \in Ids(heap), p \in Placements :
        /\ heap[o].kind \in BlockKinds
        /\ Len(heap[o].entries) < MaxEntries
        /\ \E n \in 0..(Len(heap[o].matrices) - 1) :
              LET c == RBlockMatrix_addMatrixEntry(heap, o, n, p[1], p[2])
              IN  /\ heap' = c.heap
                  /\ last' = Call("addMatrixEntry", o, <<n, p[1], p[2]>>,
                                  c.res)

NoContainer == \A o \in Ids(heap) : heap[o].kind \notin BlockKinds

\* One block container over the leaves: built, filled, applied.
NextBlock ==
    \/ (NoContainer /\ NewBlockMatrix)
    \/ AddMatrix
    \/ AddMatrixEntry
    \/ CallMult
    \/ CallTransMult

SpecBlock == Init /\ [][NextBlock]_vars

\* The same with the block-diagonal container.
NextND ==
    \/ (NoContainer /\ NewNDMatrix)
    \/ AddMatrix
    \/ AddMatrixEntry
    \/ CallMult
    \/ CallTransMult

SpecND == Init /\ [][NextND]_vars

\* Several block containers and the sub-operators added to them.
NextBlockOwnership ==
    \/ NewBlockMatrix
    \/ AddMatrix

SpecBlockOwnership == Init /\ [][NextBlockOwnership]_vars

\* The right-only wrapper alone: constructed, its weight rebound, applied.
NextMultRight ==
    \/ NewMultRightMatrix
    \/ SetR
    \/ CallMult
    \/ CallTransMult

SpecMultRight == Init /\ [][NextMultRight]_vars

---------------------------------------------------------------------------
\* Properties.

\* The length invariant of a scaling wrapper o in heap h.
LengthInvariant(h, o) ==
    /\ HasLeft(h[o]) => Len(h[o].l) = rows(h, o)
    /\ HasRight(h[o]) => Len(h[o].r) = cols(h, o)

IsCall == last.op \in {"mult", "transMult"}

\* C1: a scaling wrapper of any of the three kinds is constructed only with
\* weighting vectors of the base's dimensions (left: rows, right: cols); a
\* supplied vector of another length makes the constructor raise, so that
\* no operator results.
C1_ConstructionValidatesLength ==
    (last.op \in MultKinds /\ last.res.ok)
        => LengthInvariant(heap, last.self)

\* C2: assigning to the l or r property a vector whose length breaks the
\* length invariant raises at the assignment and leaves the previous weight
\* in place, instead of being accepted.  (Any exception counts as the
\* failure here, not only the shape error the claim names.)
C2_RebindValidatesLength ==
    [][LET o == last'.self
           v == last'.x
       IN  /\ (last'.op = "set_l" /\ HasLeft(heap[o])
                  /\ Len(v) # rows(heap, o))
                 => (~last'.res.ok /\ heap' = heap)
           /\ (last'.op = "set_r" /\ HasRight(heap[o])
                  /\ Len(v) # cols(heap, o))
                 => (~last'.res.ok /\ heap' = heap)]_vars

\* C3: in every reachable state every scaling wrapper satisfies the length
\* invariant.
C3_LengthInvariantAlways ==
    \A o \in Ids(heap) : heap[o].kind \in MultKinds => LengthInvariant(heap, o)

\* C4: on each of the three wrappers, assigning a same-length vector to l
\* replaces the left weight and assigning to r replaces the right weight,
\* and only that weight.
C4_BothWeightsRebindable ==
    [][LET o == last'.self
           v == last'.x
       IN  /\ (last'.op = "set_l" /\ Len(v) = Len(heap[o].l))
                 => (last'.res.ok /\ heap'[o].l = v
                        /\ heap'[o].r = heap[o].r)
           /\ (last'.op = "set_r" /\ HasRight(heap[o])
                  /\ Len(v) = Len(heap[o].r))
                 => (last'.res.ok /\ heap'[o].r = v
                        /\ heap'[o].l = heap[o].l)]_vars

\* C5: mult with an input whose length is not cols(), and transMult with an
\* input whose length is not rows(), raise a shape error and return no
\* vector.
C5_WrongLengthRejected ==
    /\ (last.op = "mult" /\ Len(last.x) # cols(heap, last.self))
          => (~last.res.ok /\ last.res.err \in ShapeErrors)
    /\ (last.op = "transMult" /\ Len(last.x) # rows(heap, last.self))
          => (~last.res.ok /\ last.res.err \in ShapeErrors)

\* What the spec's formulas denote: F(v * w) and F(v) * w for element-wise
\* products, an exception of a step being the outcome.
MultOf(h, A, xw) == IF xw.ok THEN mult(h, A, xw.val) ELSE xw

TransMultOf(h, A, xw) == IF xw.ok THEN transMult(h, A, xw.val) ELSE xw

\* Two outcomes agree: the same vector, or an exception in both.
SameOutcome(a, b) == a.ok = b.ok /\ (a.ok => a.val = b.val)

\* C6: on an input of the right size the right-only wrapper computes
\* mult(x) = A.mult(x * r) and transMult(y) = A.transMult(y) * r, the
\* left-only wrapper mult(x) = A.mult(x) * l and transMult(y) =
\* A.transMult(y * l), the two-sided wrapper mult(x) = l * A.mult(x * r) and
\* transMult(y) = r * A.transMult(y * l).
C6_ScalingFormulas ==
    LET o == last.self
        x == last.x
        w == heap[o]
    IN  /\ (last.op = "mult" /\ w.kind \in MultKinds
               /\ Len(x) = cols(heap, o))
              => SameOutcome(last.res,
                    CASE w.kind = "MultRightMatrix" ->
                            MultOf(heap, w.A, Times(x, w.r))
                      [] w.kind = "MultLeftMatrix" ->
                            TimesR(mult(heap, w.A, x), w.l)
                      [] w.kind = "MultLeftRightMatrix" ->
                            TimesR(MultOf(heap, w.A, Times(x, w.r)), w.l))
        /\ (last.op = "transMult" /\ w.kind \in MultKinds
               /\ Len(x) = rows(heap, o))
              => SameOutcome(last.res,
                    CASE w.kind = "MultRightMatrix" ->
                            TimesR(transMult(heap, w.A, x), w.r)
                      [] w.kind = "MultLeftMatrix" ->
                            TransMultOf(heap, w.A, Times(x, w.l))
                      [] w.kind = "MultLeftRightMatrix" ->
                            TimesR(TransMultOf(heap, w.A, Times(x, w.l)), w.r))

\* The element-wise sum of two vectors of one length.
SumVec(a, b) == [i \in 1..Len(a) |-> a[i] + b[i]]

\* The sum of diagonal operators [1, 2] and [3, 4] maps [1, 1] to [4, 6].
SumOfDiagonals ==
    LET n == Len(Leaves)
        h1 == DiagonalMatrix_init(Leaves, <<1, 2>>).heap
        h2 == DiagonalMatrix_init(h1, <<3, 4>>).heap
        c == Add2Matrix_init(h2, n + 1, n + 2)
    IN  /\ c.res.ok
        /\ mult(c.heap, Len(c.heap), <<1, 1>>) = Ok(<<4, 6>>)

\* m is the outcome of a + b for operand outcomes a and b: their
\* element-wise sum, or an exception when an operand raised.
IsSum(a, b, m) ==
    /\ (a.ok /\ b.ok /\ Len(a.val) = Len(b.val))
          => m = Ok(SumVec(a.val, b.val))
    /\ (~a.ok \/ ~b.ok) => ~m.ok

\* C7: an Add2Matrix exists only for operands of equal rows() and cols();
\* it reports A's shape, and mult(x) = A.mult(x) + B.mult(x), transMult(y) =
\* A.transMult(y) + B.transMult(y): the result is the element-wise sum of
\* the operands' results, and an operand's exception is the outcome.  The
\* results are those of every sum of the heap on every vector, and the
\* outcome of the call just made.
C7_Add2Matrix ==
    /\ (last.op = "Add2Matrix" /\ last.res.ok)
          => /\ rows(heap, heap[last.self].A) = rows(heap, heap[last.self].B)
             /\ cols(heap, heap[last.self].A) = cols(heap, heap[last.self].B)
    /\ \A o \in Ids(heap) :
          heap[o].kind = "Add2Matrix" =>
            /\ rows(heap, o) = rows(heap, heap[o].A)
            /\ cols(heap, o) = cols(heap, heap[o].A)
            /\ ~IsCall =>
                  \A x \in AllVecs :
                      /\ IsSum(mult(heap, heap[o].A, x),
                               mult(heap, heap[o].B, x), mult(heap, o, x))
                      /\ IsSum(transMult(heap, heap[o].A, x),
                               transMult(heap, heap[o].B, x),
                               transMult(heap, o, x))
    /\ (IsCall /\ heap[last.self].kind = "Add2Matrix") =>
          LET o == heap[last.self]
          IN  /\ last.op = "mult" =>
                    IsSum(mult(heap, o.A, last.x), mult(heap, o.B, last.x),
                          last.res)
              /\ last.op = "transMult" =>
                    IsSum(transMult(heap, o.A, last.x),
                          transMult(heap, o.B, last.x), last.res)
    /\ SumOfDiagonals

\* A sum of two different operands has been applied to a vector.
C7_Witness ==
    /\ last.op = "mult"
    /\ last.res.ok
    /\ heap[last.self].kind = "Add2Matrix"
    /\ heap[heap[last.self].A] # heap[heap[last.self].B]
    /\ last.res.val # mult(heap, heap[last.self].A, last.x).val

\* The other nesting of a nested product, built on heap h from the same
\* three factors: A*(B*C) for a product (A*B)*C, and (A*B)*C for A*(B*C).
RightNest(h, a, b, c) ==
    LET q == Mult2Matrix_init(h, b, c)
    IN  IF q.res.ok THEN Mult2Matrix_init(q.heap, a, Len(q.heap)) ELSE q

LeftNest(h, a, b, c) ==
    LET p == Mult2Matrix_init(h, a, b)
    IN  IF p.res.ok THEN Mult2Matrix_init(p.heap, Len(p.heap), c) ELSE p

\* Operator o of heap h and the operator just built by n agree in shape
\* and in every result.
SameOperator(h, o, n) ==
    LET m == Len(n.heap)
    IN  /\ rows(h, o) = rows(n.heap, m)
        /\ cols(h, o) = cols(n.heap, m)
        /\ \A x \in AllVecs :
              /\ mult(h, o, x) = mult(n.heap, m, x)
              /\ transMult(h, o, x) = transMult(n.heap, m, x)

Associative(h, o) ==
    LET p == h[h[o].A]
        q == h[h[o].B]
        R == RightNest(h, p.A, p.B, h[o].B)
        L == LeftNest(h, h[o].A, q.A, q.B)
    IN  /\ (p.kind = "Mult2Matrix" /\ R.res.ok) => SameOperator(h, o, R)
        /\ (q.kind = "Mult2Matrix" /\ L.res.ok) => SameOperator(h, o, L)

\* C8: a Mult2Matrix exists only when A.cols() = B.rows(); it reports the
\* shape (A.rows(), B.cols()), mult(x) = A.mult(B.mult(x)) and transMult(y) =
\* B.transMult(A.transMult(y)); a nested product has the shape and the
\* results of the other nesting of its three factors.  The results are
\* those of every product of the heap on every vector, and the outcome of
\* the call just made.
C8_Mult2Matrix ==
    /\ (last.op = "Mult2Matrix" /\ last.res.ok)
          => cols(heap, heap[last.self].A) = rows(heap, heap[last.self].B)
    /\ \A o \in Ids(heap) :
          heap[o].kind = "Mult2Matrix" =>
            /\ rows(heap, o) = rows(heap, heap[o].A)
            /\ cols(heap, o) = cols(heap, heap[o].B)
            /\ ~IsCall =>
                  /\ \A x \in AllVecs :
                        /\ mult(heap, o, x)
                              = MultOf(heap, heap[o].A,
                                       mult(heap, heap[o].B, x))
                        /\ transMult(heap, o, x)
                              = TransMultOf(heap, heap[o].B,
                                            transMult(heap, heap[o].A, x))
                  /\ Associative(heap, o)
    /\ (IsCall /\ heap[last.self].kind = "Mult2Matrix") =>
          LET o == heap[last.self]
          IN  /\ last.op = "mult" =>
                    last.res = MultOf(heap, o.A, mult(heap, o.B, last.x))
              /\ last.op = "transMult" =>
                    last.res
                      = TransMultOf(heap, o.B, transMult(heap, o.A, last.x))

\* A product whose first factor is itself a product of two different
\* operators has been applied, and the other nesting can be built.
C8_Witness ==
    /\ last.op = "mult"
    /\ last.res.ok
    /\ heap[last.self].kind = "Mult2Matrix"
    /\ heap[heap[last.self].A].kind = "Mult2Matrix"
    /\ heap[heap[last.self].A].A # heap[heap[last.self].A].B
    /\ LET p == heap[heap[last.self].A]
       IN  RightNest(heap, p.A, p.B, heap[last.self].B).res.ok

\* The element-wise product of two vectors of one length.
ProdVec(a, b) == [i \in 1..Len(a) |-> a[i] * b[i]]

\* C9: a DiagonalMatrix is square of size len(d), mult(x) is the
\* element-wise product x * d, and transMult(x) = mult(x) for every x.  The
\* results are those of every diagonal operator of the heap on every
\* vector, and the outcome of the call just made.
C9_DiagonalMatrix ==
    /\ \A o \in Ids(heap) :
          heap[o].kind = "DiagonalMatrix" =>
            /\ rows(heap, o) = Len(heap[o].d)
            /\ cols(heap, o) = Len(heap[o].d)
            /\ ~IsCall =>
                  \A x \in AllVecs :
                      /\ Len(x) = Len(heap[o].d)
                            => mult(heap, o, x) = Ok(ProdVec(x, heap[o].d))
                      /\ transMult(heap, o, x) = mult(heap, o, x)
    /\ (IsCall /\ heap[last.self].kind = "DiagonalMatrix") =>
          LET d == heap[last.self].d
          IN  /\ Len(last.x) = Len(d) => last.res = Ok(ProdVec(last.x, d))
              /\ last.op = "transMult" =>
                    last.res = mult(heap, last.self, last.x)
              /\ last.op = "mult" =>
                    last.res = transMult(heap, last.self, last.x)

\* The adjoint of a diagonal operator with unequal entries has been applied.
C9_Witness ==
    /\ last.op = "transMult"
    /\ last.res.ok
    /\ heap[last.self].kind = "DiagonalMatrix"
    /\ Len(last.x) = Len(heap[last.self].d)
    /\ last.res.val # last.x
    /\ \E i \in DOMAIN last.x : last.res.val[i] # last.res.val[1]

\* C10: for every operator O of the heap, x of length O.cols() and y of
\* length O.rows(): mult and transMult return vectors and
\* dot(O.mult(x), y) = dot(x, O.transMult(y)).
C10_AdjointConsistency ==
    \A o \in Ids(heap), x \in AllVecs, y \in AllVecs :
        (Len(x) = cols(heap, o) /\ Len(y) = rows(heap, o)) =>
            /\ mult(heap, o, x).ok
            /\ transMult(heap, o, y).ok
            /\ Len(mult(heap, o, x).val) = Len(y)
            /\ Len(transMult(heap, o, y).val) = Len(x)
            /\ Dot(mult(heap, o, x).val, y) = Dot(x, transMult(heap, o, y).val)

\* Every shape relation the constructors check still holds of the heap.
ShapesConsistent ==
    \A o \in Ids(heap) :
        /\ heap[o].kind \in MultKinds => LengthInvariant(heap, o)
        /\ heap[o].kind = "Add2Matrix" =>
              /\ rows(heap, heap[o].A) = rows(heap, heap[o].B)
              /\ cols(heap, heap[o].A) = cols(heap, heap[o].B)
        /\ heap[o].kind = "Mult2Matrix" =>
              cols(heap, heap[o].A) = rows(heap, heap[o].B)

\* The scaling formulas and the adjoint relation hold wherever the shapes
\* are consistent: they fail only through a wrapper constructed or rebound
\* without validation.
ScalingFormulasOnConsistentShapes == ShapesConsistent => C6_ScalingFormulas

AdjointOnConsistentShapes ==
    (ShapesConsistent /\ ~IsCall) => C10_AdjointConsistency

---------------------------------------------------------------------------
\* What a caller can observe of operator o: its attributes and its shape.
Observable(h, o) == <<h[o], rows(h, o), cols(h, o)>>

\* C11: a call of mult or transMult, returning or raising, leaves every
\* operator's base operator(s), weights, diagonal, rows() and cols() as they
\* were, and its outcome is determined by the operator's state and the
\* input; after construction only an assignment to a weight (l or r)
\* changes what can be observed of an operator.
C11_ReadOnlyAndDeterministic ==
    [][/\ last'.op \in {"mult", "transMult"} =>
             /\ \A o \in Ids(heap) :
                    /\ o \in Ids(heap')
                    /\ Observable(heap', o) = Observable(heap, o)
             /\ last'.res = IF last'.op = "mult"
                            THEN mult(heap, last'.self, last'.x)
                            ELSE transMult(heap, last'.self, last'.x)
       /\ (\E o \in Ids(heap) : Observable(heap', o) # Observable(heap, o))
             => last'.op \in {"set_l", "set_r"}]_vars

\* C20: on a MultRightMatrix that was constructed and had r rebound, mult
\* returns no vector for an input with len(x) # len(r) (the fallback reads
\* the attribute perm, which nothing sets) and has the outcome of
\* A.mult(x * r) when len(x) = len(r); transMult is A.transMult(x) * r for
\* every input, whatever its length.  This holds of every such wrapper of
\* the heap on every vector, and of the call just made.
C20_MultRightFallback ==
    /\ \A o \in Ids(heap) :
          (heap[o].kind = "MultRightMatrix" /\ ~IsCall) =>
              \A x \in AllVecs :
                  /\ Len(x) # Len(heap[o].r) => ~mult(heap, o, x).ok
                  /\ Len(x) = Len(heap[o].r) =>
                        mult(heap, o, x)
                          = MultOf(heap, heap[o].A, Times(x, heap[o].r))
                  /\ transMult(heap, o, x)
                        = TimesR(transMult(heap, heap[o].A, x), heap[o].r)
    /\ (IsCall /\ heap[last.self].kind = "MultRightMatrix") =>
          LET w == heap[last.self]
          IN  /\ (last.op = "mult" /\ Len(last.x) # Len(w.r))
                    => ~last.res.ok
              /\ (last.op = "mult" /\ Len(last.x) = Len(w.r))
                    => last.res = MultOf(heap, w.A, Times(last.x, w.r))
              /\ last.op = "transMult"
                    => last.res = TimesR(transMult(heap, w.A, last.x), w.r)

\* mult was called on a right-only wrapper whose weight had been rebound,
\* with an input of another length than r that x * r alone would have
\* accepted, and returned no vector.
C20_Witness ==
    /\ last.op = "mult"
    /\ heap[last.self].kind = "MultRightMatrix"
    /\ Len(last.x) # Len(heap[last.self].r)
    /\ heap[last.self].r \in Vecs
    /\ Times(last.x, heap[last.self].r).ok
    /\ ~last.res.ok

---------------------------------------------------------------------------
\* The inverse-square-root operator.

IsCm05(h, o) == h[o].kind = "Cm05Matrix"

\* C12: Cm05Matrix(A) for an A with A.shape[0] # A.shape[1] raises the
\* constructor's own exception (the decomposition, which would raise
\* ValueError, is not reached) and no operator results; an operator built
\* from a square A reports rows() = cols() = A.shape[0].
C12_Cm05SquareOnly ==
    [][last'.op = "Cm05Matrix" =>
          /\ last'.x[1] # last'.x[2] =>
                /\ last'.res = Fail("Exception")
                /\ heap' = heap
          /\ (last'.x[1] = last'.x[2] /\ last'.res.ok) =>
                /\ heap' = Append(heap, heap'[last'.self])
                /\ rows(heap', last'.self) = last'.x[1]
                /\ cols(heap', last'.self) = last'.x[1]]_vars

\* The constructor has been called with an array that is not square.
C12_Witness ==
    /\ last.op = "Cm05Matrix"
    /\ last.x[1] # last.x[2]
    /\ ~last.res.ok

\* C13: for every Cm05Matrix and every input x, transMult(x) has the
\* outcome of mult(x) (the same vector, or the same exception); so has the
\* call just made.
C13_Cm05SelfAdjoint ==
    /\ \A o \in Ids(heap) :
          (IsCm05(heap, o) /\ ~IsCall) =>
              \A x \in AllVecs : transMult(heap, o, x) = mult(heap, o, x)
    /\ (IsCall /\ IsCm05(heap, last.self)) =>
          /\ last.op = "transMult" =>
                last.res = mult(heap, last.self, last.x)
          /\ last.op = "mult" =>
                last.res = transMult(heap, last.self, last.x)

\* The adjoint of an operator that is not the identity has been applied.
C13_Witness ==
    /\ last.op = "transMult"
    /\ IsCm05(heap, last.self)
    /\ last.res.ok
    /\ last.res.val # AsFloats(last.x)

\* A is symmetric and positive definite (leading minors, up to 2x2).
IsSPD(A) ==
    /\ Len(A) = Len(A[1])
    /\ \A i \in 1..Len(A), j \in 1..Len(A) : A[i][j] = A[j][i]
    /\ A[1][1] > 0
    /\ Len(A) = 2 => A[1][1] * A[2][2] - A[1][2] * A[2][1] > 0

\* The product of the dense array A and a vector of floats.
MatVec(A, y) == [i \in 1..Len(A) |-> FDot(AsFloats(A[i]), y)]

\* V (s * (V^T x)), entry by entry.
Scaled(V, s, x) ==
    [j \in 1..Len(V) |->
        FDot(V[j], [i \in 1..Len(V) |-> FMul(s[i], FDot(Column(V, i), x))])]

\* mult of operator o maps the float vector v to a vector that mult maps
\* to the solution u of A u = v.
InvertsTwice(h, o, v) ==
    LET m1 == Cm05Matrix_mult(h, o, v)
        m2 == Cm05Matrix_mult(h, o, m1.val)
    IN  m1.ok /\ m2.ok /\ MatVec(h[o].A, m2.val) = v

\* C14: for a Cm05Matrix of a symmetric positive definite A, the stored
\* EV and ew decompose A (A EV = EV diag(ew), EV orthonormal), mul is
\* 1/sqrt(ew), mult(x) = EV (mul * (EV^T x)) for every x of length size,
\* and A * mult(mult(v)) = v for every such v; the call just made returned
\* a vector that mult maps to the solution of A u = x.
C14_Cm05InverseSqrt ==
    /\ \A o \in Ids(heap) :
          (IsCm05(heap, o) /\ IsSPD(heap[o].A) /\ ~IsCall) =>
              LET c == heap[o]
                  n == c.size
              IN  /\ \A i \in 1..n, j \in 1..n :
                        /\ FDot(AsFloats(c.A[j]), Column(c.EV, i))
                              = FMul(c.ew[i], c.EV[j][i])
                        /\ FDot(Column(c.EV, i), Column(c.EV, j))
                              = FromInt(IF i = j THEN 1 ELSE 0)
                  /\ \A i \in 1..n :
                        /\ c.mul[i].n > 0
                        /\ FMul(FMul(c.mul[i], c.mul[i]), c.ew[i])
                              = FromInt(1)
                  /\ \A v \in AllVecs :
                        Len(v) = n =>
                            /\ mult(heap, o, v)
                                  = Ok(Scaled(c.EV, c.mul, AsFloats(v)))
                            /\ InvertsTwice(heap, o, AsFloats(v))
    /\ (last.op = "mult" /\ IsCm05(heap, last.self)
           /\ IsSPD(heap[last.self].A)
           /\ Len(last.x) = heap[last.self].size) =>
          /\ last.res.ok
          /\ LET m2 == Cm05Matrix_mult(heap, last.self, last.res.val)
             IN  m2.ok /\ MatVec(heap[last.self].A, m2.val)
                             = AsFloats(last.x)

\* mult has been applied on the operator of a positive definite array
\* whose eigenvectors are not the coordinate axes.
C14_Witness ==
    /\ last.op = "mult"
    /\ IsCm05(heap, last.self)
    /\ heap[last.self].A = S345
    /\ last.res.ok

\* Operator o has an eigenvalue that is zero or negative.
Degenerate(h, o) == \E i \in 1..h[o].size : h[o].ew[i].n <= 0

HasNonFinite(v) == \E j \in 1..Len(v) : ~IsFinite(v[j])

\* C15: Cm05Matrix(A) returns an operator for every square A, symmetric
\* and positive definite or not; the scale factor stored for a zero or
\* negative eigenvalue is inf or nan; and on such an operator mult and
\* transMult of an input of length size return a vector with a non-finite
\* entry and raise nothing.
C15_Cm05Unchecked ==
    /\ (last.op = "Cm05Matrix" /\ last.x[1] = last.x[2]) => last.res.ok
    /\ \A o \in Ids(heap) :
          (IsCm05(heap, o) /\ ~IsCall) =>
              /\ \A i \in 1..heap[o].size :
                    heap[o].ew[i].n <= 0 => ~IsFinite(heap[o].mul[i])
              /\ Degenerate(heap, o) =>
                    \A x \in AllVecs :
                        Len(x) = heap[o].size =>
                            /\ mult(heap, o, x).ok
                            /\ HasNonFinite(mult(heap, o, x).val)
                            /\ transMult(heap, o, x).ok
                            /\ HasNonFinite(transMult(heap, o, x).val)
    /\ (IsCall /\ IsCm05(heap, last.self) /\ Degenerate(heap, last.self)
           /\ Len(last.x) = heap[last.self].size) =>
          (last.res.ok /\ HasNonFinite(last.res.val))

\* An operator built from an array with a zero or negative eigenvalue has
\* been applied.
C15_Witness ==
    /\ last.op = "mult"
    /\ IsCm05(heap, last.self)
    /\ Degenerate(heap, last.self)
    /\ Len(last.x) = heap[last.self].size
    /\ last.res.ok

---------------------------------------------------------------------------
\* The block container.

IsBlock(h, o) == h[o].kind \in BlockKinds

\* The sub-operator of entry k of container o.
SubOf(h, o, k) == h[o].matrices[h[o].entries[k].mat + 1]

\* The largest rowOffset + sub.rows() and colOffset + sub.cols() over the
\* entries of container o.
RowExtent(h, o) ==
    Max({h[o].entries[k].row + rows(h, SubOf(h, o, k)) :
            k \in DOMAIN h[o].entries})

ColExtent(h, o) ==
    Max({h[o].entries[k].col + cols(h, SubOf(h, o, k)) :
            k \in DOMAIN h[o].entries})

\* C16: a call addMatrix(M, rowOffset, colOffset) succeeds and appends the
\* entry (M, rowOffset, colOffset); and after every addition rows() is the
\* largest rowOffset + sub.rows() and cols() the largest colOffset +
\* sub.cols() over the entries, with no further call.
C16_AddMatrixWithOffsets ==
    /\ (last.op = "addMatrix" /\ Len(last.x) = 3) =>
          /\ last.res.ok
          /\ heap[last.self].entries # <<>>
          /\ LET k == Len(heap[last.self].entries)
             IN  /\ SubOf(heap, last.self, k) = last.x[1]
                 /\ heap[last.self].entries[k].row = last.x[2]
                 /\ heap[last.self].entries[k].col = last.x[3]
    /\ \A o \in Ids(heap) :
          IsBlock(heap, o) =>
              /\ rows(heap, o) = RowExtent(heap, o)
              /\ cols(heap, o) = ColExtent(heap, o)

\* The list __mats__ of container o, empty while the attribute is absent.
MatsOf(h, o) == IF h[o].hasMats THEN h[o].mats ELSE <<>>

IsPrefix(a, b) == Len(a) <= Len(b) /\ \A i \in 1..Len(a) : a[i] = b[i]

\* C17: a successful addMatrix(M) on container o appends M to o's own list
\* and returns the index the underlying container gave M (the number of
\* sub-operators it held before); no call shortens or rewrites the list of
\* any container or touches the list of another container; so each list
\* holds, in call order, exactly the sub-operators registered with its
\* container.
C17_BlockOwnership ==
    [][/\ \A o \in Ids(heap) :
             IsBlock(heap, o) =>
                 /\ o \in Ids(heap')
                 /\ IsPrefix(MatsOf(heap, o), MatsOf(heap', o))
                 /\ (last'.op = "addMatrix" /\ last'.self # o)
                       => MatsOf(heap', o) = MatsOf(heap, o)
       /\ \A o \in Ids(heap') :
             IsBlock(heap', o) => MatsOf(heap', o) = heap'[o].matrices
       /\ (last'.op = "addMatrix" /\ last'.res.ok) =>
             /\ MatsOf(heap', last'.self)
                   = Append(MatsOf(heap, last'.self), last'.x[1])
             /\ last'.res.val = <<Len(heap[last'.self].matrices)>>]_vars

\* Two containers hold sub-operators, one of them two, the other a
\* different first one.
C17_Witness ==
    /\ last.op = "addMatrix"
    /\ last.res.ok
    /\ \E o \in Ids(heap), p \in Ids(heap) :
          /\ o # p
          /\ IsBlock(heap, o)
          /\ IsBlock(heap, p)
          /\ Len(MatsOf(heap, o)) = 2
          /\ Len(MatsOf(heap, p)) >= 1
          /\ MatsOf(heap, o)[2] # MatsOf(heap, o)[1]

\* The inputs the block properties range over: 0/1 vectors up to the widest
\* container the placements allow.
BlockInputs == UNION {[1..n -> 0..1] : n \in 1..(MaxLen + 1)}

\* Entry i of the output, as the sum over the first k entries of what each
\* sub-operator contributes there (0 when its rows do not cover i).
RECURSIVE BlockSum(_, _, _, _, _)
BlockSum(h, o, x, i, k) ==
    IF k = 0 THEN 0
    ELSE LET e == h[o].entries[k]
             sub == SubOf(h, o, k)
         IN  BlockSum(h, o, x, i, k - 1)
               + (IF e.row < i /\ i <= e.row + rows(h, sub)
                  THEN mult(h, sub, Slice(x, e.col, cols(h, sub))).val[i - e.row]
                  ELSE 0)

RECURSIVE BlockTransSum(_, _, _, _, _)
BlockTransSum(h, o, y, j, k) ==
    IF k = 0 THEN 0
    ELSE LET e == h[o].entries[k]
             sub == SubOf(h, o, k)
         IN  BlockTransSum(h, o, y, j, k - 1)
               + (IF e.col < j /\ j <= e.col + cols(h, sub)
                  THEN transMult(h, sub,
                                 Slice(y, e.row, rows(h, sub))).val[j - e.col]
                  ELSE 0)

BlockMultExpected(h, o, x) ==
    Ok([i \in 1..rows(h, o) |-> BlockSum(h, o, x, i, Len(h[o].entries))])

BlockTransMultExpected(h, o, y) ==
    Ok([j \in 1..cols(h, o) |->
           BlockTransSum(h, o, y, j, Len(h[o].entries))])

\* Blocks [[1, 2], [0, 1]] at (0, 0) and diag(2, 1) at (2, 2), added with
\* addMatrix and placed with the index it returned, give a 4x4 operator
\* that maps [1, 0, 0, 1] to each block's own response in its own slice.
TwoBlocks ==
    LET h0 == DiagonalMatrix_init(Leaves, <<2, 1>>).heap
        d == Len(h0)
        h1 == RBlockMatrix_init(h0).heap
        b == Len(h1)
        a1 == BlockMatrix_addMatrix(h1, b, 1, <<>>)
        e1 == RBlockMatrix_addMatrixEntry(a1.heap, b, a1.res.val[1], 0, 0)
        a2 == BlockMatrix_addMatrix(e1.heap, b, d, <<>>)
        e2 == RBlockMatrix_addMatrixEntry(a2.heap, b, a2.res.val[1], 2, 2)
    IN  /\ rows(e2.heap, b) = 4
        /\ cols(e2.heap, b) = 4
        /\ mult(e2.heap, b, <<1, 0, 0, 1>>) = Ok(<<1, 0, 0, 1>>)
        /\ transMult(e2.heap, b, <<1, 1, 0, 1>>) = Ok(<<1, 3, 0, 1>>)

\* C18: for a block container and an input x of length cols(), entry i of
\* mult(x) is the sum, over the entries whose rows cover i, of the
\* sub-operator's result on its slice of x (so overlapping placements add
\* up and uncovered rows are 0); transMult is the same with rows and
\* columns exchanged; and the two-block scenario gives the 4x4 operator.
\* This holds of every container on every input, and of the call just
\* made.
C18_BlockApply ==
    /\ \A o \in Ids(heap) :
          (IsBlock(heap, o) /\ ~IsCall) =>
              \A x \in BlockInputs :
                  /\ Len(x) = cols(heap, o) =>
                        mult(heap, o, x) = BlockMultExpected(heap, o, x)
                  /\ Len(x) = rows(heap, o) =>
                        transMult(heap, o, x)
                          = BlockTransMultExpected(heap, o, x)
    /\ (IsCall /\ IsBlock(heap, last.self)) =>
          /\ (last.op = "mult" /\ Len(last.x) = cols(heap, last.self)) =>
                last.res = BlockMultExpected(heap, last.self, last.x)
          /\ (last.op = "transMult"
                 /\ Len(last.x) = rows(heap, last.self)) =>
                last.res = BlockTransMultExpected(heap, last.self, last.x)
    /\ TwoBlocks

\* A container with two overlapping entries has been applied.
C18_Witness ==
    /\ last.op = "mult"
    /\ last.res.ok
    /\ IsBlock(heap, last.self)
    /\ Len(heap[last.self].entries) = 2
    /\ heap[last.self].entries[1].row = heap[last.self].entries[2].row
    /\ heap[last.self].entries[1].col = heap[last.self].entries[2].col
    /\ \E i \in DOMAIN last.res.val : last.res.val[i] # 0

\* x is zero outside the column segment seg (from 1) of width nc.
OnlyInSegment(x, seg, nc) ==
    \A j \in DOMAIN x : x[j] # 0 => ((seg - 1) * nc < j /\ j <= seg * nc)

\* C19: NDMatrix(num, nrows, ncols) returns, for every num >= 0, a
\* container of num different nrows x ncols blocks, block i placed at
\* (i * nrows, i * ncols), of shape (num * nrows, num * ncols), in which an
\* input that is nonzero only in column segment i gives an output that is
\* nonzero only in row segment i.
C19_NDMatrix ==
    last.op = "NDMatrix" =>
        LET num == last.x[1]
            nr == last.x[2]
            nc == last.x[3]
            o == last.self
        IN  /\ last.res.ok
            /\ Len(heap[o].Ji) = num
            /\ heap[o].matrices = heap[o].Ji
            /\ Len(heap[o].entries) = num
            /\ \A i \in 1..num :
                  /\ \A j \in 1..num : i # j => heap[o].Ji[i] # heap[o].Ji[j]
                  /\ rows(heap, heap[o].Ji[i]) = nr
                  /\ cols(heap, heap[o].Ji[i]) = nc
                  /\ heap[o].entries[i]
                        = Entry(i - 1, (i - 1) * nr, (i - 1) * nc)
            /\ rows(heap, o) = num * nr
            /\ cols(heap, o) = num * nc
            /\ \A x \in BlockInputs, seg \in 1..num :
                  (Len(x) = num * nc /\ OnlyInSegment(x, seg, nc)) =>
                      /\ mult(heap, o, x).ok
                      /\ OnlyInSegment(mult(heap, o, x).val, seg, nr)

====
